---- MODULE Spec2Model ----
(***************************************************************************)
(* Face password manager: the biometric envelope-decryption and matching   *)
(* pipeline of the backend (services/user.service.ts, routes/users.ts,     *)
(* utils/imageDecryptionUtils.ts, utils/cryptoUtils.ts).                   *)
(*                                                                         *)
(* Strings are sequences of one-character strings, so that the template    *)
(* strings that build the base keys are modelled by concatenation.         *)
(* AES and PBKDF2 are symbolic: a ciphertext records the strengthened key  *)
(* and the plaintext, and decrypting under another key throws inside       *)
(* crypto-js (malformed UTF-8), which decrypt() turns into "".             *)
(***************************************************************************)
EXTENDS Integers, Sequences, FiniteSets, Bags, TLC

(* ------------------------------ bounds -------------------------------- *)

\* Number of requests the server handles at the same time.
MaxReq == 2

\* Number of underlying model loads a run may start.
MaxLoads == 2

\* Length of a face descriptor in the model (the detector's is 128).
DescLen == 2

(* --------------------------- configuration ---------------------------- *)

\* faceMatchThreshold 0.65, in hundredths.
faceMatchThreshold == 65

ITERATIONS == 10000

KEY_SIZE == 256

\* import.meta.env.VITE_ENCRYPTION_SALT / process.env.ENCRYPTION_SALT
SALT == <<"s">>

\* process.env.APP_SECRET_KEY / import.meta.env.VITE_SECRET_KEY
APP_SECRET_KEY == <<"K">>

(* ------------------------------ strings ------------------------------- *)

Emails == { <<"a">>, <<"b">> }

\* The emails requests are made for.
RequestEmails == { <<"a">> }

RECURSIVE Digits(_)
\* Decimal digits of a number, as a template string prints it.
Digits(n) ==
    LET d == <<"0", "1", "2", "3", "4", "5", "6", "7", "8", "9">>
    IN  IF n < 10 THEN <<d[n + 1]>> ELSE Digits(n \div 10) \o <<d[(n % 10) + 1]>>

\* The literal both base keys start with, kept as one token and its hyphen.
Prefix == <<"pwd-manager", "-">>

\* Variant: the base key is built from the email and the secret, without the id.
getUserEncryptionKey_EmailOnly(userId, userEmail) ==
    Prefix \o userEmail \o <<"-">> \o APP_SECRET_KEY

\* `pwd-manager-${userId}-${userEmail}-${appSecretKey}`
getUserEncryptionKey(userId, userEmail) ==
    Prefix \o Digits(userId) \o <<"-">> \o userEmail \o <<"-">> \o APP_SECRET_KEY

\* `pwd-manager-temp-${email}-${process.env.APP_SECRET_KEY}`
tempEncryptionKey(email) ==
    Prefix \o <<"t", "e", "m", "p", "-">> \o email \o <<"-">> \o APP_SECRET_KEY

(* ------------------------------- crypto ------------------------------- *)

\* PBKDF2(password, salt, { keySize: KEY_SIZE / 32, iterations: ITERATIONS }).toString()
PBKDF2(password, salt) ==
    [base |-> password, salt |-> salt, iterations |-> ITERATIONS, keySize |-> KEY_SIZE \div 32]

\* strengthenKey(baseKey), both sides holding the salt SALT.
strengthenKey(baseKey) == PBKDF2(baseKey, SALT)

\* The empty string, the value decrypt() returns on failure.
Empty == [t |-> "empty"]

\* A string that is no AES ciphertext (corrupt or truncated data).
Corrupt == [t |-> "corrupt"]

\* A JSON member that is absent (undefined).
Undefined == [t |-> "undefined"]

\* A short text, such as a password (a few AES blocks when encrypted).
ShortText == [t |-> "text"]

\* AES.encrypt(message, passphrase).toString() with the salt it drew.
AESencrypt(message, passphrase, salt) ==
    [t |-> "aes", key |-> passphrase, pt |-> message, salt |-> salt]

\* AES.decrypt(ciphertext, passphrase).toString(UTF8): the text, or a throw. Arbitrary
\* bytes as long as the base64 of an image are never well-formed UTF-8, nor
\* stripped whole; the bytes of a short text can be either.
AESdecryptUtf8(ciphertext, passphrase) ==
    IF ciphertext.t # "aes" THEN [throws |-> TRUE, text |-> Empty]
    ELSE IF ciphertext.key = passphrase THEN [throws |-> FALSE, text |-> ciphertext.pt]
    ELSE IF ciphertext.pt # ShortText \/ ciphertext.salt = "malformed"
    THEN [throws |-> TRUE, text |-> Empty]
    ELSE IF ciphertext.salt = "stripped" THEN [throws |-> FALSE, text |-> Empty]
    ELSE [throws |-> FALSE, text |-> [t |-> "garbage"]]

\* encrypt(value, secretKey), salt being the salt AES.encrypt() draws.
encrypt(value, secretKey, salt) ==
    IF value = Empty THEN Empty
    ELSE AESencrypt(value, strengthenKey(secretKey), salt)

\* Variant: the key is strengthened with another salt than the one encrypt() uses.
decrypt_OtherSalt(encryptedValue, secretKey) ==
    IF encryptedValue \in {Empty, Undefined} THEN Empty
    ELSE LET bytes == AESdecryptUtf8(encryptedValue, PBKDF2(secretKey, <<"other">>))
         IN  IF bytes.throws THEN Empty ELSE bytes.text

\* decrypt(encryptedValue, secretKey): "" when the value is falsy and when AES or the
\* UTF-8 decoding throws; otherwise the decoded text, which may be empty.
decrypt(encryptedValue, secretKey) ==
    IF encryptedValue \in {Empty, Undefined} THEN Empty
    ELSE LET bytes == AESdecryptUtf8(encryptedValue, strengthenKey(secretKey))
         IN  IF bytes.throws THEN Empty ELSE bytes.text

(* --------------------------- buffers, images -------------------------- *)

\* A descriptor: DescLen numbers; only the first component varies.
Descriptor(v) == [i \in 1..DescLen |-> IF i = 1 THEN v ELSE 0]

\* The first component takes these coordinates, in hundredths.
Faces == { Descriptor(v) : v \in {0, 65, 66} }

\* detectSingleFace(...) found nothing.
NoFace == <<>>

\* A decodable image file.
ImageBuffer == [t |-> "image"]

\* Bytes that are no image file.
JunkBuffer == [t |-> "bytes"]

\* blobToBase64(blob): the base64 text of a buffer.
Base64(buffer) == [t |-> "b64", of |-> buffer]

\* Buffer.from(text, "base64"): never throws; text that is no base64 decodes to junk.
BufferFromBase64(text) == IF text.t = "b64" THEN text.of ELSE JunkBuffer

\* A JSON wrapper around a ciphertext, with the version it states.
VersionedEnvelope(data, version) ==
    [t |-> "json", data |-> data, contentType |-> "image/jpeg", version |-> version]

\* The JSON wrapper createEncryptedImageFormData() builds around the ciphertext.
Envelope(data) == VersionedEnvelope(data, "1.0")

\* The ciphertext string alone, without the JSON wrapper.
BareEnvelope(data) == [t |-> "raw", data |-> data]

\* A body that parses as JSON but is no object (null).
NullEnvelope == [t |-> "jsonnull"]

\* Variant: a body that is not JSON is not taken as a bare ciphertext.
ParseEnvelope_NoFallback(encryptedData) ==
    IF encryptedData.t = "json" THEN [isNull |-> FALSE, data |-> encryptedData.data]
    ELSE [isNull |-> TRUE, data |-> Undefined]

\* JSON.parse(encryptedData.toString("utf8")) with the fallback { data: <the string> }.
\* The result is the parsed value; null has no members.
ParseEnvelope(encryptedData) ==
    IF encryptedData.t \in {"json", "raw"} THEN [isNull |-> FALSE, data |-> encryptedData.data]
    ELSE IF encryptedData.t = "jsonnull" THEN [isNull |-> TRUE, data |-> Undefined]
    ELSE [isNull |-> FALSE, data |-> Corrupt]

\* One call of decrypt() with a base key, and whether it returned a non-empty text.
Attempt(key, text) == [key |-> key, ok |-> text # Empty]

\* The decrypt helpers return a buffer or throw; attempts lists their decrypt() calls.
Returned(buffer, attempts) ==
    [ok |-> TRUE, buffer |-> buffer, attempts |-> attempts, error |-> "none"]

Thrown(message, attempts) ==
    [ok |-> FALSE, buffer |-> JunkBuffer, attempts |-> attempts, error |-> message]

\* Variant: registration also tries the user-specific key of id 1 first.
decryptSelfieImage_UserKeyFirst(encryptedData, email) ==
    LET info == ParseEnvelope(encryptedData)
        userKey == getUserEncryptionKey(1, email)
        first == decrypt(info.data, userKey)
        tempKey == tempEncryptionKey(email)
        second == decrypt(info.data, tempKey)
    IN  IF info.isNull THEN Thrown("Failed to decrypt selfie image", <<>>)
        ELSE IF first # Empty
        THEN Returned(BufferFromBase64(first), <<Attempt(userKey, first)>>)
        ELSE IF second # Empty
        THEN Returned(BufferFromBase64(second), <<Attempt(userKey, first), Attempt(tempKey, second)>>)
        ELSE Thrown("Failed to decrypt selfie image",
                    <<Attempt(userKey, first), Attempt(tempKey, second)>>)

\* decryptSelfieImage(encryptedData, email): the temporary key only.
decryptSelfieImage(encryptedData, email) ==
    LET tempKey == tempEncryptionKey(email)
        info == ParseEnvelope(encryptedData)
        decryptedBase64 == decrypt(info.data, tempKey)
    IN  IF info.isNull THEN Thrown("Failed to decrypt selfie image", <<>>)
        ELSE IF decryptedBase64 = Empty
        THEN Thrown("Failed to decrypt selfie image", <<Attempt(tempKey, decryptedBase64)>>)
        ELSE Returned(BufferFromBase64(decryptedBase64), <<Attempt(tempKey, decryptedBase64)>>)

\* Variant: the temporary key is tried before the user-specific key.
decryptUserSelfieImage_TempFirst(encryptedData, userId, email) ==
    LET encryptionKey == getUserEncryptionKey(userId, email)
        info == ParseEnvelope(encryptedData)
        tempKey == tempEncryptionKey(email)
        first == decrypt(info.data, tempKey)
        second == decrypt(info.data, encryptionKey)
    IN  IF info.isNull THEN Thrown("Failed to decrypt user selfie image", <<>>)
        ELSE IF first # Empty
        THEN Returned(BufferFromBase64(first), <<Attempt(tempKey, first)>>)
        ELSE IF second # Empty
        THEN Returned(BufferFromBase64(second),
                      <<Attempt(tempKey, first), Attempt(encryptionKey, second)>>)
        ELSE Thrown("Failed to decrypt user selfie image",
                    <<Attempt(tempKey, first), Attempt(encryptionKey, second)>>)

\* Variant: the temporary key is tried even after the user-specific key succeeded.
decryptUserSelfieImage_NoStop(encryptedData, userId, email) ==
    LET encryptionKey == getUserEncryptionKey(userId, email)
        info == ParseEnvelope(encryptedData)
        first == decrypt(info.data, encryptionKey)
        tempKey == tempEncryptionKey(email)
        second == decrypt(info.data, tempKey)
        both == <<Attempt(encryptionKey, first), Attempt(tempKey, second)>>
    IN  IF info.isNull THEN Thrown("Failed to decrypt user selfie image", <<>>)
        ELSE IF first # Empty THEN Returned(BufferFromBase64(first), both)
        ELSE IF second # Empty THEN Returned(BufferFromBase64(second), both)
        ELSE Thrown("Failed to decrypt user selfie image", both)

\* Variant: no fallback to the temporary key.
decryptUserSelfieImage_NoFallback(encryptedData, userId, email) ==
    LET encryptionKey == getUserEncryptionKey(userId, email)
        info == ParseEnvelope(encryptedData)
        first == decrypt(info.data, encryptionKey)
    IN  IF info.isNull THEN Thrown("Failed to decrypt user selfie image", <<>>)
        ELSE IF first # Empty
        THEN Returned(BufferFromBase64(first), <<Attempt(encryptionKey, first)>>)
        ELSE Thrown("Failed to decrypt user selfie image", <<Attempt(encryptionKey, first)>>)

\* decryptUserSelfieImage(encryptedData, userId, email): the user-specific key, and
\* when that returns nothing the temporary key.
decryptUserSelfieImage(encryptedData, userId, email) ==
    LET encryptionKey == getUserEncryptionKey(userId, email)
        info == ParseEnvelope(encryptedData)
        first == decrypt(info.data, encryptionKey)
        tempKey == tempEncryptionKey(email)
        second == decrypt(info.data, tempKey)
    IN  IF info.isNull THEN Thrown("Failed to decrypt user selfie image", <<>>)
        ELSE IF first # Empty
        THEN Returned(BufferFromBase64(first), <<Attempt(encryptionKey, first)>>)
        ELSE IF second # Empty
        THEN Returned(BufferFromBase64(second),
                      <<Attempt(encryptionKey, first), Attempt(tempKey, second)>>)
        ELSE Thrown("Failed to decrypt user selfie image",
                    <<Attempt(encryptionKey, first), Attempt(tempKey, second)>>)

(* ------------------------------- errors ------------------------------- *)

\* new ServiceError(code, message)
ServiceError(code, message) == [type |-> "ServiceError", code |-> code, message |-> message]

\* new Error(message)
PlainError(message) == [type |-> "Error", code |-> "none", message |-> message]

\* throw handleDbError(err): what the catch block of a service function throws for the
\* error it caught. The handler is a function of the caught error alone.
handleDbError(err) == [type |-> "handleDbError", of |-> err]

NoToken == [id |-> 0, email |-> <<>>]

\* No error: the function returned, or has not ended yet.
NoError == [type |-> "none", of |-> PlainError("none")]

\* What a request ends with: the value returned, or the error thrown to the route.
Success(userId, token) == [ok |-> TRUE, error |-> NoError, userId |-> userId, token |-> token]

Failure(err) == [ok |-> FALSE, error |-> handleDbError(err), userId |-> 0, token |-> NoToken]

NoResult == [ok |-> FALSE, error |-> NoError, userId |-> 0, token |-> NoToken]

\* jwt.sign({ id: user.id, email: user.email }, JWT_SECRET, ...)
jwtSign(user) == [id |-> user.id, email |-> user.email]

(* ----------------------------- the uploads ---------------------------- *)

\* First id prisma's autoincrement gives.
FirstUserId == 1

\* Number of users the store may hold in the model.
MaxUsers == 2

UserIds == FirstUserId..MaxUsers

\* Base keys a client may encrypt a capture with: the temporary key of the email
\* and the user-specific keys of the ids the store can give.
ClientKeys(email) ==
    {tempEncryptionKey(email)} \cup { getUserEncryptionKey(i, email) : i \in UserIds }

\* Captures as the client encrypts them: encrypt(base64 of the image, key). The salt
\* drawn makes no difference to a text of this length, so one stands for all.
Captures(email) ==
    { encrypt(Base64(ImageBuffer), k, "malformed") : k \in ClientKeys(email) }

\* What the data member of an envelope may hold.
Ciphertexts(email) == Captures(email) \cup {Empty, Corrupt, Undefined}

\* Bodies of the encryptedImage part.
EncryptedBodies(email) ==
    { Envelope(c) : c \in Ciphertexts(email) }
        \cup { BareEnvelope(c) : c \in Captures(email) }
        \cup {NullEnvelope}

\* Bodies of the selfie part.
SelfieBodies == {ImageBuffer, JunkBuffer}

NoFile == [fieldname |-> "none", buffer |-> JunkBuffer]

\* req.files of a multipart request: any of the two parts may be present.
Uploads(email) ==
    [encryptedImage : EncryptedBodies(email) \cup {Undefined},
     selfie : SelfieBodies \cup {Undefined}]

\* The route's choice of file: encryptedImage if present, otherwise selfie.
RouteFile(files) ==
    IF files.encryptedImage # Undefined
    THEN [fieldname |-> "encryptedImage", buffer |-> files.encryptedImage]
    ELSE IF files.selfie # Undefined
    THEN [fieldname |-> "selfie", buffer |-> files.selfie]
    ELSE NoFile

(* ------------------------------- matching ----------------------------- *)

RECURSIVE SumSq(_, _, _)
\* Sum over the first n components of the squared differences.
SumSq(a, b, n) ==
    IF n = 0 THEN 0 ELSE SumSq(a, b, n - 1) + (a[n] - b[n]) * (a[n] - b[n])

\* faceapi.euclideanDistance(stored, probe), squared.
euclideanDistanceSq(stored, probe) == SumSq(stored, probe, Len(stored))

\* faceapi.euclideanDistance(arr1, arr2) throws when the lengths differ.
LengthsDiffer(arr1, arr2) == Len(arr1) # Len(arr2)

\* Variant: a distance equal to the threshold counts as exceeding it.
DistanceExceeds_AtThreshold(stored, probe) ==
    euclideanDistanceSq(stored, probe) >= faceMatchThreshold * faceMatchThreshold

\* distance > faceConfig.faceMatchThreshold
DistanceExceeds(stored, probe) ==
    euclideanDistanceSq(stored, probe) > faceMatchThreshold * faceMatchThreshold

(* ------------------------------ the browser --------------------------- *)

\* A User of the frontend: { id, email, token? }. Id 0 and the token NoToken stand
\* for members that are missing; NoStoredUser stands for null, and for no item.
StoredUser(id, email, token) == [id |-> id, email |-> email, token |-> token]

NoStoredUser == StoredUser(0, <<>>, NoToken)

\* The closure of a render of FaceRecognition: the attemptingAuth it captured.
NoListener == [attached |-> FALSE, attemptingAuth |-> FALSE]

\* The browser as the application is opened: nothing stored, the login page at
\* its email step, FaceRecognition not mounted.
ClientInit ==
    [page |-> "login", localStorage |-> NoStoredUser, authToken |-> NoToken,
     user |-> NoStoredUser, email |-> <<>>, mounted |-> FALSE, initialized |-> FALSE,
     playing |-> FALSE, attemptingAuth |-> FALSE, listener |-> NoListener,
     intervals |-> {}, detecting |-> 0, posting |-> 0, resolved |-> 0]

(* -------------------------------- state ------------------------------- *)

VARIABLES
    users,                 \* prisma.user: the stored users
    nextId,                \* the next autoincrement id
    jwtSecret,             \* whether process.env.JWT_SECRET is defined
    modelsLoaded,          \* let modelsLoaded
    modelsLoadingPromise,  \* let modelsLoadingPromise: 0 is null, else an index of loads
    loads,                 \* the model loads started so far
    requests,              \* the requests being handled: a bag of their states
    call,                  \* the last call of a utility function: its arguments and result
    client                 \* the browser: localStorage, the axios header, the login page

vars ==
    <<users, nextId, jwtSecret, modelsLoaded, modelsLoadingPromise, loads, requests, call,
      client>>

\* No utility function has been called on its own.
NoCall == [op |-> "none"]

NoUser == [id |-> 0, email |-> <<>>, faceDescriptor |-> NoFace]

\* A request as it arrives.
NewRequest ==
    [pc |-> "new", kind |-> "none", email |-> <<>>, file |-> NoFile, user |-> NoUser,
     decrypted |-> FALSE, attempts |-> <<>>, fileBuffer |-> JunkBuffer, awaiting |-> 0,
     processed |-> FALSE, detection |-> NoFace, result |-> NoResult]

\* prisma.user.findUnique({ where: { email } })
findUnique(email) ==
    IF \E u \in users : u.email = email
    THEN CHOOSE u \in users : u.email = email
    ELSE NoUser

TypeOK ==
    /\ nextId \in FirstUserId..(MaxUsers + 1)
    /\ jwtSecret \in BOOLEAN
    /\ modelsLoaded \in BOOLEAN
    /\ modelsLoadingPromise \in 0..Len(loads)
    /\ Len(loads) <= MaxLoads
    /\ \A u \in users : u.id \in UserIds /\ u.email \in Emails
    /\ IsABag(requests)
    /\ BagCardinality(requests) <= MaxReq
    /\ \A req \in BagToSet(requests) :
        req.pc \in {"lookup", "models", "downscale", "detect", "create", "done"}

Init ==
    \* The store the server starts with: empty, or holding users registered earlier.
    /\ users \in
        LET userA(id) == [id |-> id, email |-> <<"a">>, faceDescriptor |-> Descriptor(0)]
            userB == [id |-> FirstUserId, email |-> <<"b">>, faceDescriptor |-> Descriptor(0)]
        IN  { {}, {userB, userA(FirstUserId + 1)} }
    /\ nextId = FirstUserId + Cardinality(users)
    /\ jwtSecret \in BOOLEAN
    /\ modelsLoaded = FALSE
    /\ modelsLoadingPromise = 0
    /\ loads = <<>>
    /\ requests = EmptyBag
    /\ call = NoCall
    /\ client = ClientInit

(* --------------------------- model lifecycle -------------------------- *)

\* Variant: every call starts a load, whatever the flag and the promise say.
StartsNewLoad_Always == TRUE

\* Variant: no check of the promise of a load in flight.
StartsNewLoad_NoPromiseCheck == ~modelsLoaded

\* loadModelsOnce() starts a load when the models are not loaded and no promise is kept.
StartsNewLoad == ~modelsLoaded /\ modelsLoadingPromise = 0

\* The promise loadModelsOnce() hands its caller: 0 when it returns at once.
LoadPromise ==
    IF modelsLoaded THEN 0
    ELSE IF StartsNewLoad THEN Len(loads) + 1
    ELSE modelsLoadingPromise

\* The synchronous part of loadModelsOnce(): the shared state it leaves.
loadModelsOnce ==
    IF StartsNewLoad
    THEN /\ Len(loads) < MaxLoads
         /\ loads' = Append(loads, "pending")
         /\ modelsLoadingPromise' = Len(loads) + 1
         /\ UNCHANGED modelsLoaded
    ELSE UNCHANGED <<loads, modelsLoadingPromise, modelsLoaded>>

\* Promise.all of the three loadFromDisk() calls resolves: modelsLoaded = true.
LoadResolved(l) ==
    /\ l \in 1..Len(loads)
    /\ loads[l] = "pending"
    /\ loads' = [loads EXCEPT ![l] = "fulfilled"]
    /\ modelsLoaded' = TRUE
    /\ UNCHANGED <<users, nextId, jwtSecret, call, client, modelsLoadingPromise, requests>>

\* One of the loadFromDisk() calls rejects: Promise.all and the load reject.
LoadRejects(l) ==
    /\ l \in 1..Len(loads)
    /\ loads[l] = "pending"
    /\ loads' = [loads EXCEPT ![l] = "rejected"]
    /\ UNCHANGED <<users, nextId, jwtSecret, call, client, modelsLoaded, modelsLoadingPromise, requests>>

LoadSettled(l) == IF l = 0 THEN TRUE ELSE loads[l] # "pending"

LoadRejected(l) == IF l = 0 THEN FALSE ELSE loads[l] = "rejected"

(* ------------------------- the service's steps ------------------------ *)

\* The state of fileBuffer after the decryption block of a service function.
Decrypted(buffer, attempts) ==
    [ok |-> TRUE, decrypted |-> TRUE, fileBuffer |-> buffer, attempts |-> attempts,
     error |-> ServiceError("none", "none")]

NotEncrypted(buffer) ==
    [ok |-> TRUE, decrypted |-> FALSE, fileBuffer |-> buffer, attempts |-> <<>>,
     error |-> ServiceError("none", "none")]

DecryptFailed(buffer, attempts, err) ==
    [ok |-> FALSE, decrypted |-> FALSE, fileBuffer |-> buffer, attempts |-> attempts,
     error |-> err]

\* registerUserWithImage: let fileBuffer = file.buffer; decrypt it if it came as
\* encryptedImage; a failure is rethrown as one validation error.
RegisterDecrypt(file, email) ==
    IF file.fieldname = "encryptedImage"
    THEN LET dec == decryptSelfieImage(file.buffer, email)
         IN  IF dec.ok THEN Decrypted(dec.buffer, dec.attempts)
             ELSE DecryptFailed(file.buffer, dec.attempts,
                      ServiceError("VALIDATION_FAILED", "Failed to decrypt image data"))
    ELSE NotEncrypted(file.buffer)

\* Variant: a failed decryption is swallowed and the uploaded bytes are used as they are.
AuthDecrypt_Passthrough(file, user, email) ==
    IF file.fieldname = "encryptedImage"
    THEN LET dec == IF user.id # 0
                    THEN decryptUserSelfieImage(file.buffer, user.id, email)
                    ELSE decryptSelfieImage(file.buffer, email)
         IN  IF dec.ok THEN Decrypted(dec.buffer, dec.attempts)
             ELSE NotEncrypted(file.buffer)
    ELSE NotEncrypted(file.buffer)

\* Variant: the validation error says how many keys were tried.
AuthDecrypt_LeakAttempts(file, user, email) ==
    IF file.fieldname = "encryptedImage"
    THEN LET dec == IF user.id # 0
                    THEN decryptUserSelfieImage(file.buffer, user.id, email)
                    ELSE decryptSelfieImage(file.buffer, email)
         IN  IF dec.ok THEN Decrypted(dec.buffer, dec.attempts)
             ELSE DecryptFailed(file.buffer, dec.attempts,
                      ServiceError("VALIDATION_FAILED",
                          IF Len(dec.attempts) = 0 THEN "Malformed image data"
                          ELSE "Failed to decrypt image data"))
    ELSE NotEncrypted(file.buffer)

\* authenticateWithFace: the same block, with the user-specific helper when the
\* user has an id.
AuthDecrypt(file, user, email) ==
    IF file.fieldname = "encryptedImage"
    THEN LET dec == IF user.id # 0
                    THEN decryptUserSelfieImage(file.buffer, user.id, email)
                    ELSE decryptSelfieImage(file.buffer, email)
         IN  IF dec.ok THEN Decrypted(dec.buffer, dec.attempts)
             ELSE DecryptFailed(file.buffer, dec.attempts,
                      ServiceError("VALIDATION_FAILED", "Failed to decrypt image data"))
    ELSE NotEncrypted(file.buffer)

\* A request ends: the service returned or threw. Its locals fileBuffer and the
\* awaited promise are gone; what it did stays until the response is sent.
Finish(req, result) ==
    [req EXCEPT !.pc = "done", !.result = result, !.fileBuffer = JunkBuffer, !.awaiting = 0]

\* The requests in flight.
InFlight == BagToSet(requests)

\* A request arrives, and a request goes from one state to the next.
Arrive(req) == requests (+) SetToBag({req})

Step(req, next) == (requests (-) SetToBag({req})) (+) SetToBag({next})

\* POST /users/register up to the service's first await, await loadModelsOnce().
Register ==
    /\ BagCardinality(requests) < MaxReq
    /\ \E email \in RequestEmails : \E files \in Uploads(email) :
        LET file == RouteFile(files)
            dec == RegisterDecrypt(file, email)
            req == [NewRequest EXCEPT !.kind = "register", !.email = email,
                                       !.file = [file EXCEPT !.buffer = JunkBuffer],
                                       !.decrypted = dec.decrypted,
                                       !.attempts = dec.attempts]
        IN  IF file = NoFile
            THEN /\ requests' = Arrive(Finish(req,
                        Failure(ServiceError("VALIDATION_FAILED",
                                             "No selfie provided for registration"))))
                 /\ UNCHANGED <<loads, modelsLoadingPromise, modelsLoaded>>
            ELSE IF ~dec.ok
            THEN /\ requests' = Arrive(Finish(req, Failure(dec.error)))
                 /\ UNCHANGED <<loads, modelsLoadingPromise, modelsLoaded>>
            ELSE /\ requests' = Arrive([req EXCEPT !.pc = "models", !.fileBuffer = dec.fileBuffer,
                                    !.awaiting = LoadPromise])
                 /\ loadModelsOnce
    /\ UNCHANGED <<users, nextId, jwtSecret, call, client>>

\* POST /users/login up to the service's first await, prisma.user.findUnique().
\* Only the part the route picked is kept; its bytes are read after the lookup.
Login ==
    /\ BagCardinality(requests) < MaxReq
    /\ \E email \in RequestEmails : \E files \in Uploads(email) :
        LET file == RouteFile(files)
            req == [NewRequest EXCEPT !.kind = "login", !.email = email,
                                       !.file = [file EXCEPT !.buffer = JunkBuffer]]
        IN  requests' = Arrive(IF file = NoFile
                THEN Finish(req, Failure(ServiceError("VALIDATION_FAILED",
                                                      "No selfie provided for authentication")))
                ELSE [req EXCEPT !.pc = "lookup"])
    /\ UNCHANGED <<users, nextId, jwtSecret, call, client, modelsLoaded, modelsLoadingPromise, loads>>

\* The bodies the part of the given name may hold.
Bodies(fieldname, email) ==
    IF fieldname = "encryptedImage" THEN EncryptedBodies(email) ELSE SelfieBodies

\* authenticateWithFace from the user lookup's answer to await loadModelsOnce().
AuthAfterLookup(cur) ==
    /\ cur.pc = "lookup"
    /\ \E buffer \in Bodies(cur.file.fieldname, cur.email) :
       LET user == findUnique(cur.email)
           dec == AuthDecrypt([cur.file EXCEPT !.buffer = buffer], user, cur.email)
           req == [cur EXCEPT !.user = user]
       IN  IF user = NoUser
           THEN /\ requests' = Step(cur,
                       Finish(req, Failure(ServiceError("NOT_FOUND", "User not found"))))
                /\ UNCHANGED <<loads, modelsLoadingPromise, modelsLoaded>>
           ELSE IF user.faceDescriptor = NoFace
           THEN /\ requests' = Step(cur,
                       Finish(req, Failure(ServiceError("VALIDATION_FAILED",
                                                        "No registered face found for this user"))))
                /\ UNCHANGED <<loads, modelsLoadingPromise, modelsLoaded>>
           ELSE IF ~dec.ok
           THEN /\ requests' = Step(cur,
                       Finish([req EXCEPT !.attempts = dec.attempts], Failure(dec.error)))
                /\ UNCHANGED <<loads, modelsLoadingPromise, modelsLoaded>>
           ELSE /\ requests' = Step(cur,
                       [req EXCEPT !.pc = "models", !.decrypted = dec.decrypted,
                                   !.attempts = dec.attempts, !.fileBuffer = dec.fileBuffer,
                                   !.awaiting = LoadPromise])
                /\ loadModelsOnce
    /\ UNCHANGED <<users, nextId, jwtSecret, call, client>>

\* Variant: loadModelsOnce() is called without await, so the image is processed
\* whether or not the load has settled.
AfterModels_NoAwait(cur) ==
    /\ cur.pc = "models"
    /\ requests' = Step(cur, [cur EXCEPT !.pc = "downscale"])
    /\ UNCHANGED <<users, nextId, jwtSecret, call, client, modelsLoaded, modelsLoadingPromise, loads>>

\* await loadModelsOnce() settles; on success downscaleBuffer() starts loading the image.
AfterModels(cur) ==
    /\ cur.pc = "models"
    /\ LoadSettled(cur.awaiting)
    /\ requests' = Step(cur,
           IF LoadRejected(cur.awaiting)
           THEN Finish(cur, Failure(PlainError("Model load failed")))
           ELSE [cur EXCEPT !.pc = "downscale"])
    /\ UNCHANGED <<users, nextId, jwtSecret, call, client, modelsLoaded, modelsLoadingPromise, loads>>

\* downscaleBuffer(): loadImage(buffer) answers; the canvas goes to detectSingleFace().
AfterLoadImage(cur) ==
    /\ cur.pc = "downscale"
    /\ requests' = Step(cur,
           IF cur.fileBuffer.t # "image"
           THEN Finish(cur, Failure(PlainError("Failed to process image")))
           ELSE [cur EXCEPT !.pc = "detect", !.processed = TRUE])
    /\ UNCHANGED <<users, nextId, jwtSecret, call, client, modelsLoaded, modelsLoadingPromise, loads>>

\* Variant: the distance to the stored descriptor is not checked.
AuthOutcome_NoDistanceCheck(user, detection) ==
    IF detection = NoFace
    THEN Failure(ServiceError("VALIDATION_FAILED", "No face detected in the image"))
    ELSE IF ~jwtSecret
    THEN Failure(ServiceError("VALIDATION_FAILED",
                              "JWT_SECRET environment variable is not defined"))
    ELSE Success(user.id, jwtSign(user))

\* Variant: the detector's answer is not checked for a face.
AuthOutcome_NoFaceUnchecked(user, detection) ==
    IF LengthsDiffer(user.faceDescriptor, detection)
    THEN Failure(PlainError("euclideanDistance: arr1.length !== arr2.length"))
    ELSE IF DistanceExceeds(user.faceDescriptor, detection)
    THEN Failure(ServiceError("VALIDATION_FAILED", "Face verification failed"))
    ELSE IF ~jwtSecret
    THEN Failure(ServiceError("VALIDATION_FAILED",
                              "JWT_SECRET environment variable is not defined"))
    ELSE Success(user.id, jwtSign(user))

\* Variant: descriptors of different lengths count as a face that does not match.
AuthOutcome_LengthIsMismatch(user, detection) ==
    IF detection = NoFace
    THEN Failure(ServiceError("VALIDATION_FAILED", "No face detected in the image"))
    ELSE IF LengthsDiffer(user.faceDescriptor, detection)
    THEN Failure(ServiceError("VALIDATION_FAILED", "Face verification failed"))
    ELSE IF DistanceExceeds(user.faceDescriptor, detection)
    THEN Failure(ServiceError("VALIDATION_FAILED", "Face verification failed"))
    ELSE IF ~jwtSecret
    THEN Failure(ServiceError("VALIDATION_FAILED",
                              "JWT_SECRET environment variable is not defined"))
    ELSE Success(user.id, jwtSign(user))

\* The value authenticateWithFace ends with once the detector answered.
AuthOutcome(user, detection) ==
    IF detection = NoFace
    THEN Failure(ServiceError("VALIDATION_FAILED", "No face detected in the image"))
    ELSE IF LengthsDiffer(user.faceDescriptor, detection)
    THEN Failure(PlainError("euclideanDistance: arr1.length !== arr2.length"))
    ELSE IF DistanceExceeds(user.faceDescriptor, detection)
    THEN Failure(ServiceError("VALIDATION_FAILED", "Face verification failed"))
    ELSE IF ~jwtSecret
    THEN Failure(ServiceError("VALIDATION_FAILED",
                              "JWT_SECRET environment variable is not defined"))
    ELSE Success(user.id, jwtSign(user))

\* Variant: registration writes the user record as soon as the detector answered,
\* before it looks at the answer.
AfterDetect_WritesTemplate(cur) ==
    /\ cur.pc = "detect"
    /\ \E detection \in Faces \cup {NoFace} :
        /\ requests' = Step(cur,
              IF cur.kind = "login"
              THEN Finish([cur EXCEPT !.detection = detection], AuthOutcome(cur.user, detection))
              ELSE IF detection = NoFace
              THEN Finish(cur, Failure(ServiceError("VALIDATION_FAILED",
                                                  "No face detected in the image")))
              ELSE [cur EXCEPT !.pc = "create", !.detection = detection])
        /\ users' = IF cur.kind = "register" /\ nextId <= MaxUsers
                    THEN users \cup {[id |-> nextId, email |-> cur.email,
                                      faceDescriptor |-> detection]}
                    ELSE users
    /\ UNCHANGED <<nextId, jwtSecret, call, client, modelsLoaded, modelsLoadingPromise, loads>>

\* detectSingleFace().withFaceLandmarks().withFaceDescriptor() answers: the rest of
\* authenticateWithFace, and registerUserWithImage up to await prisma.user.create().
AfterDetect(cur) ==
    /\ cur.pc = "detect"
    /\ \E detection \in Faces \cup {NoFace} :
        requests' = Step(cur,
            IF cur.kind = "login"
            THEN Finish([cur EXCEPT !.detection = detection], AuthOutcome(cur.user, detection))
            ELSE IF detection = NoFace
            THEN Finish(cur, Failure(ServiceError("VALIDATION_FAILED",
                                                "No face detected in the image")))
            ELSE [cur EXCEPT !.pc = "create", !.detection = detection])
    /\ UNCHANGED <<users, nextId, jwtSecret, call, client, modelsLoaded, modelsLoadingPromise, loads>>

\* Variant: creating a user whose email is registered replaces the stored descriptor.
AfterCreate_Upsert(cur) ==
    /\ cur.pc = "create"
    /\ IF \E u \in users : u.email = cur.email
       THEN LET old == findUnique(cur.email)
                new == [old EXCEPT !.faceDescriptor = cur.detection]
            IN  /\ users' = (users \ {old}) \cup {new}
                /\ requests' = Step(cur, Finish([cur EXCEPT !.user = new],
                                                Success(old.id, NoToken)))
                /\ UNCHANGED nextId
       ELSE LET newUser == [id |-> nextId, email |-> cur.email, faceDescriptor |-> cur.detection]
            IN  /\ nextId <= MaxUsers
                /\ users' = users \cup {newUser}
                /\ nextId' = nextId + 1
                /\ requests' = Step(cur, Finish([cur EXCEPT !.user = newUser],
                                                Success(nextId, NoToken)))
    /\ UNCHANGED <<jwtSecret, call, client, modelsLoaded, modelsLoadingPromise, loads>>

\* Variant: the descriptor is stored without its last component.
AfterCreate_StoresPrefix(cur) ==
    /\ cur.pc = "create"
    /\ IF \E u \in users : u.email = cur.email
       THEN /\ requests' = Step(cur, Finish(cur, Failure(PlainError("Unique constraint failed"))))
            /\ UNCHANGED <<users, nextId>>
       ELSE LET newUser == [id |-> nextId, email |-> cur.email,
                            faceDescriptor |-> SubSeq(cur.detection, 1, DescLen - 1)]
            IN  /\ nextId <= MaxUsers
                /\ users' = users \cup {newUser}
                /\ nextId' = nextId + 1
                /\ requests' = Step(cur, Finish([cur EXCEPT !.user = newUser],
                                                Success(nextId, NoToken)))
    /\ UNCHANGED <<jwtSecret, call, client, modelsLoaded, modelsLoadingPromise, loads>>

\* prisma.user.create() answers: the email is unique, the id is the next one.
AfterCreate(cur) ==
    /\ cur.pc = "create"
    /\ IF \E u \in users : u.email = cur.email
       THEN /\ requests' = Step(cur, Finish(cur, Failure(PlainError("Unique constraint failed"))))
            /\ UNCHANGED <<users, nextId>>
       ELSE LET newUser == [id |-> nextId, email |-> cur.email, faceDescriptor |-> cur.detection]
            IN  /\ nextId <= MaxUsers
                /\ users' = users \cup {newUser}
                /\ nextId' = nextId + 1
                /\ requests' = Step(cur, Finish([cur EXCEPT !.user = newUser],
                                                Success(nextId, NoToken)))
    /\ UNCHANGED <<jwtSecret, call, client, modelsLoaded, modelsLoadingPromise, loads>>

\* The route sends the response and the request is over.
Respond(cur) ==
    /\ cur.pc = "done"
    /\ requests' = requests (-) SetToBag({cur})
    /\ UNCHANGED <<users, nextId, jwtSecret, call, client, modelsLoaded, modelsLoadingPromise, loads>>

\* Variant: the record is kept without its id (a soft delete), descriptor included.
deleteUser_KeepsTemplate(id) ==
    /\ \E u \in users : u.id = id
    /\ users' = { IF u.id = id THEN [u EXCEPT !.id = 0] ELSE u : u \in users }
    /\ UNCHANGED <<nextId, jwtSecret, call, client, modelsLoaded, modelsLoadingPromise, loads, requests>>

\* DELETE /users/:id: deleteUser(id) finds the user and deletes the record, the
\* stored descriptor with it. Requests in flight keep the record they read.
deleteUser(id) ==
    /\ \E u \in users : u.id = id
    /\ users' = { u \in users : u.id # id }
    /\ UNCHANGED <<nextId, jwtSecret, call, client, modelsLoaded, modelsLoadingPromise, loads, requests>>

Next ==
    \/ Register
    \/ Login
    \/ \E cur \in InFlight : AuthAfterLookup(cur)
    \/ \E cur \in InFlight : AfterModels(cur)
    \/ \E cur \in InFlight : AfterLoadImage(cur)
    \/ \E cur \in InFlight : AfterDetect(cur)
    \/ \E cur \in InFlight : AfterCreate(cur)
    \/ \E cur \in InFlight : Respond(cur)
    \/ \E l \in 1..MaxLoads : LoadResolved(l)
    \/ \E l \in 1..MaxLoads : LoadRejects(l)

Spec == Init /\ [][Next]_vars

\* The life of the stored templates: registrations and deletions of accounts.
StoreNext ==
    \/ Register
    \/ \E cur \in InFlight : AfterModels(cur)
    \/ \E cur \in InFlight : AfterLoadImage(cur)
    \/ \E cur \in InFlight : AfterDetect(cur)
    \/ \E cur \in InFlight : AfterCreate(cur)
    \/ \E cur \in InFlight : Respond(cur)
    \/ \E l \in 1..MaxLoads : LoadResolved(l)
    \/ \E l \in 1..MaxLoads : LoadRejects(l)
    \/ \E id \in UserIds : deleteUser(id)

StoreSpec == Init /\ [][StoreNext]_vars

\* Authentications while accounts are deleted.
AccountNext ==
    \/ Login
    \/ \E cur \in InFlight : AuthAfterLookup(cur)
    \/ \E cur \in InFlight : AfterModels(cur)
    \/ \E cur \in InFlight : AfterLoadImage(cur)
    \/ \E cur \in InFlight : AfterDetect(cur)
    \/ \E cur \in InFlight : Respond(cur)
    \/ \E l \in 1..MaxLoads : LoadResolved(l)
    \/ \E l \in 1..MaxLoads : LoadRejects(l)
    \/ \E id \in UserIds : deleteUser(id)

AccountSpec == Init /\ [][AccountNext]_vars

(* ------------------------- the utility functions ---------------------- *)

\* The server's state, which a call of a utility function leaves alone.
service == <<users, nextId, jwtSecret, modelsLoaded, modelsLoadingPromise, loads, requests>>

\* The base keys in use: the temporary and the user-specific keys of every email.
BaseKeys == UNION { ClientKeys(email) : email \in Emails }

UtilInit ==
    /\ users = {}
    /\ nextId = FirstUserId
    /\ jwtSecret = TRUE
    /\ modelsLoaded = FALSE
    /\ modelsLoadingPromise = 0
    /\ loads = <<>>
    /\ requests = EmptyBag
    /\ call = NoCall
    /\ client = ClientInit

\* decrypt(encrypt(value, secretKey), otherKey)
CallEncryptDecrypt ==
    \* The texts: none, a short text, the base64 text of an image. The salts are the
    \* random salt AES.encrypt() writes into a ciphertext, named after what the bytes
    \* become under another passphrase (AES-CBC carries no integrity check):
    \* "malformed" (toString(UTF8) throws), "stripped" (the padding count removes every
    \* byte: the empty string), "decodable" (the bytes left are well-formed UTF-8).
    /\ \E value \in {Empty, ShortText, Base64(ImageBuffer)},
          secretKey \in BaseKeys, otherKey \in BaseKeys,
          salt \in {"malformed", "stripped", "decodable"} :
        LET encrypted == encrypt(value, secretKey, salt)
        IN  call' = [op |-> "decrypt", value |-> value, secretKey |-> secretKey,
                     otherKey |-> otherKey, encrypted |-> encrypted,
                     result |-> decrypt(encrypted, otherKey)]
    /\ UNCHANGED <<service, client>>

\* Values the secret and the salt take in the environment of either side.
Secrets == { APP_SECRET_KEY, <<"L">> }

DefaultSalt == <<"default">>

SaltValues == { SALT, DefaultSalt }

\* Frontend: getUserEncryptionKey with import.meta.env.VITE_SECRET_KEY.
getUserEncryptionKey_frontend(userId, userEmail, appSecretKey) ==
    <<"pwd-manager", "-">> \o Digits(userId) \o <<"-">> \o userEmail \o <<"-">> \o appSecretKey

\* Frontend: strengthenKey with import.meta.env.VITE_ENCRYPTION_SALT.
strengthenKey_frontend(baseKey, salt) == PBKDF2(baseKey, salt)

\* Variant: the backend builds the base key with the email before the id.
getUserEncryptionKey_backendEmailFirst(userId, userEmail, appSecretKey) ==
    <<"pwd-manager", "-">> \o userEmail \o <<"-">> \o Digits(userId) \o <<"-">> \o appSecretKey

\* Backend: getUserEncryptionKey with process.env.APP_SECRET_KEY.
getUserEncryptionKey_backend(userId, userEmail, appSecretKey) ==
    <<"pwd-manager", "-">> \o Digits(userId) \o <<"-">> \o userEmail \o <<"-">> \o appSecretKey

\* The variable is not set, or set to the empty string.
Unset == <<>>

\* Backend: process.env.ENCRYPTION_SALT || "default"
ENCRYPTION_SALT(envSalt) == IF envSalt = Unset THEN DefaultSalt ELSE envSalt

\* Backend: strengthenKey.
strengthenKey_backend(baseKey, envSalt) == PBKDF2(baseKey, ENCRYPTION_SALT(envSalt))

\* Both sides derive the key of one user, each from its own environment.
CallDeriveKey ==
    /\ \E userId \in UserIds, email \in Emails,
          frontend \in [secret : Secrets, salt : SaltValues],
          backend \in [secret : Secrets, salt : SaltValues \cup {Unset}] :
        call' = [op |-> "derive", userId |-> userId, email |-> email,
                 frontend |-> frontend, backend |-> backend,
                 frontendKey |-> strengthenKey_frontend(
                     getUserEncryptionKey_frontend(userId, email, frontend.secret),
                     frontend.salt),
                 backendKey |-> strengthenKey_backend(
                     getUserEncryptionKey_backend(userId, email, backend.secret),
                     backend.salt)]
    /\ UNCHANGED <<service, client>>

\* Bodies handed to the decrypt helpers: wrappers of every version, bare
\* ciphertexts, and null.
HelperBodies(email) ==
    { VersionedEnvelope(c, v) : c \in Ciphertexts(email), v \in {"1.0", "2.0", "none"} }
        \cup { BareEnvelope(c) : c \in Captures(email) }
        \cup {NullEnvelope}

\* The helper the service calls: decryptSelfieImage in registration,
\* decryptUserSelfieImage in authentication.
DecryptHelper(phase, encryptedData, userId, email) ==
    IF phase = "register" THEN decryptSelfieImage(encryptedData, email)
    ELSE decryptUserSelfieImage(encryptedData, userId, email)

\* A decrypt helper is called on a body.
CallDecryptHelper ==
    /\ \E phase \in {"register", "login"}, email \in Emails, userId \in UserIds :
        \E body \in HelperBodies(email) :
            call' = [op |-> "helper", phase |-> phase, email |-> email,
                     userId |-> IF phase = "register" THEN 0 ELSE userId,
                     body |-> body,
                     result |-> DecryptHelper(phase, body, userId, email)]
    /\ UNCHANGED <<service, client>>

\* Descriptors a user record may hold: those the detector gives, and ones of another
\* length (a template damaged in the store, or written by another detector).
StoredDescriptors ==
    Faces \cup { [i \in 1..n |-> 0] : n \in {DescLen - 1, DescLen + 1} }

\* authenticateWithFace from the detector's answer on, for a stored user.
CallAuthOutcome ==
    /\ \E id \in UserIds, email \in Emails, stored \in StoredDescriptors,
          detection \in Faces \cup {NoFace} :
        LET user == [id |-> id, email |-> email, faceDescriptor |-> stored]
        IN  call' = [op |-> "outcome", user |-> user, detection |-> detection,
                     result |-> AuthOutcome(user, detection)]
    /\ UNCHANGED <<service, client>>

\* The users whose keys are compared: ids of one and of two digits, and emails,
\* among them ones that hold a hyphen after a digit or after "temp".
Identities ==
    [id : UserIds \cup { 10 + i : i \in UserIds },
     email : Emails \cup { <<"1", "-", "a">>, <<"t", "e", "m", "p", "-", "a">> }]

\* The base keys of two identities, and an authentication of the second on a capture
\* encrypted for the first, under its user-specific and under its temporary key.
CallCrossDecrypt ==
    /\ \E a \in Identities, b \in Identities :
        LET userKeyA == getUserEncryptionKey(a.id, a.email)
            tempKeyA == tempEncryptionKey(a.email)
            capture(key) == Envelope(encrypt(Base64(ImageBuffer), key, "malformed"))
        IN  call' = [op |-> "keys", a |-> a, b |-> b,
                     userKeyA |-> userKeyA,
                     userKeyB |-> getUserEncryptionKey(b.id, b.email),
                     tempKeyA |-> tempKeyA,
                     tempKeyB |-> tempEncryptionKey(b.email),
                     underUserKey |-> decryptUserSelfieImage(capture(userKeyA), b.id, b.email),
                     underTempKey |-> decryptUserSelfieImage(capture(tempKeyA), b.id, b.email)]
    /\ UNCHANGED <<service, client>>

UtilNext ==
    \/ CallEncryptDecrypt
    \/ CallDeriveKey
    \/ CallDecryptHelper
    \/ CallAuthOutcome
    \/ CallCrossDecrypt

UtilSpec == UtilInit /\ [][UtilNext]_vars

(* --------------------------- the protected routes --------------------- *)

\* JavaScript values a parameter, a body member or a payload member takes.
JsUndefined == [t |-> "undefined", n |-> 0, s |-> <<>>]

JsNull == [t |-> "null", n |-> 0, s |-> <<>>]

JsNaN == [t |-> "NaN", n |-> 0, s |-> <<>>]

JsNumber(n) == [t |-> "number", n |-> n, s |-> <<>>]

JsString(s) == [t |-> "string", n |-> 0, s |-> s]

\* The truth value JavaScript gives a value in `if (v)`, `!v`, `a && b`.
Truthy(v) ==
    IF v.t = "number" THEN v.n # 0
    ELSE IF v.t = "string" THEN v.s # <<>>
    ELSE FALSE

\* a === b
StrictEquals(a, b) == a.t # "NaN" /\ a = b

HexChars == <<"0", "1", "2", "3", "4", "5", "6", "7", "8", "9">> \o <<"a", "b", "c", "d", "e", "f">>

\* The value of a digit character in a base of at most 16.
DigitValue(c) == (CHOOSE i \in 1..16 : HexChars[i] = c) - 1

IsDigit(c, base) == \E i \in 1..base : HexChars[i] = c

RECURSIVE LeadingDigits(_, _)
\* The longest prefix of a string made of digits of the base.
LeadingDigits(str, base) ==
    IF str = <<>> THEN <<>>
    ELSE IF IsDigit(Head(str), base) THEN <<Head(str)>> \o LeadingDigits(Tail(str), base)
    ELSE <<>>

RECURSIVE DigitsValue(_, _)
\* The number a string of digits of the base denotes.
DigitsValue(ds, base) ==
    IF ds = <<>> THEN 0
    ELSE DigitsValue(SubSeq(ds, 1, Len(ds) - 1), base) * base + DigitValue(ds[Len(ds)])

RECURSIVE Pow10(_)
Pow10(n) == IF n = 0 THEN 1 ELSE 10 * Pow10(n - 1)

\* parseInt(str, 10): an optional sign and the leading decimal digits; what follows
\* them is ignored, and without a digit the result is NaN.
parseInt(str) ==
    LET signed == str # <<>> /\ Head(str) \in {"-", "+"}
        body == IF signed THEN Tail(str) ELSE str
        ds == LeadingDigits(body, 10)
        value == DigitsValue(ds, 10)
    IN  IF ds = <<>> THEN JsNaN
        ELSE JsNumber(IF signed /\ Head(str) = "-" THEN 0 - value ELSE value)

\* The unary plus on a string, +str: the whole string must be a numeric literal. The
\* literals told apart here: the empty string (0), decimal digits with an optional
\* sign and an optional exponent, and hexadecimal digits after 0x; the rest is NaN.
ToNumber(str) ==
    LET signed == str # <<>> /\ Head(str) \in {"-", "+"}
        body == IF signed THEN Tail(str) ELSE str
        sign(value) == IF signed /\ Head(str) = "-" THEN 0 - value ELSE value
        mantissa == LeadingDigits(body, 10)
        rest == SubSeq(body, Len(mantissa) + 1, Len(body))
        exponent == IF rest = <<>> THEN <<>> ELSE Tail(rest)
        hex == IF Len(str) >= 2 THEN SubSeq(str, 3, Len(str)) ELSE <<>>
    IN  IF str = <<>> THEN JsNumber(0)
        ELSE IF Len(str) > 2 /\ SubSeq(str, 1, 2) = <<"0", "x">>
                /\ LeadingDigits(hex, 16) = hex
        THEN JsNumber(DigitsValue(hex, 16))
        ELSE IF mantissa = <<>> THEN JsNaN
        ELSE IF rest = <<>> THEN JsNumber(sign(DigitsValue(mantissa, 10)))
        ELSE IF Head(rest) = "e" /\ exponent # <<>> /\ LeadingDigits(exponent, 10) = exponent
        THEN JsNumber(sign(DigitsValue(mantissa, 10) * Pow10(DigitsValue(exponent, 10))))
        ELSE JsNaN

\* Values of :id in a request path; the path segment is never empty.
RouteParams ==
    { Digits(i) : i \in 0..MaxUsers }
        \cup { <<"a">>, <<"1", "a">>, <<"-", "1">>, <<"0", "x", "2">>, <<"1", "e", "1">> }
        \cup { Digits(i) \o <<"e", "0">> : i \in UserIds }

\* Payloads of tokens: id 0 and the empty email stand for members that are missing.
Payloads == [id : 0..MaxUsers, email : Emails \cup {<<>>}]

NoPayload == [id |-> 0, email |-> <<>>]

\* The text after "Bearer ": nothing, or a token.
BearerTokens ==
    {[verify |-> "empty", payload |-> NoPayload]}
        \cup { [verify |-> "payload", payload |-> pl] : pl \in Payloads }
        \cup { [verify |-> v, payload |-> NoPayload] : v \in {"TokenExpiredError", "JsonWebTokenError", "Error"} }

\* req.header('Authorization'): absent, of another scheme, or "Bearer " and a text.
AuthHeaders ==
    { [scheme |-> "none", token |-> [verify |-> "empty", payload |-> NoPayload]] }
        \cup { [scheme |-> sch, token |-> tok] : sch \in {"Basic", "Bearer"}, tok \in BearerTokens }

\* What a middleware does to the response or the chain.
Responds(by, status, message) == [by |-> by, did |-> "respond", status |-> status, message |-> message]

CallsNext(by) == [by |-> by, did |-> "next", status |-> 0, message |-> "none"]

\* Variant: the response for a payload without id or email is not followed by return.
authenticateJWT_NoReturn(authHeader, secret) ==
    LET by == "authenticateJWT"
        token == IF authHeader.scheme = "Bearer" THEN authHeader.token
                 ELSE [verify |-> "empty", payload |-> NoPayload]
        payload == token.payload
    IN  IF token.verify = "empty"
        THEN [trace |-> <<Responds(by, 401, "Access token missing")>>, user |-> NoPayload]
        ELSE IF ~secret
        THEN [trace |-> <<Responds(by, 500, "JWT secret not configured")>>, user |-> NoPayload]
        ELSE IF token.verify = "TokenExpiredError"
        THEN [trace |-> <<Responds(by, 401, "Token expired")>>, user |-> NoPayload]
        ELSE IF token.verify = "JsonWebTokenError"
        THEN [trace |-> <<Responds(by, 403, "Invalid token")>>, user |-> NoPayload]
        ELSE IF token.verify = "Error"
        THEN [trace |-> <<Responds(by, 500, "Token verification failed")>>, user |-> NoPayload]
        ELSE IF payload.id = 0 \/ payload.email = <<>>
        THEN [trace |-> <<Responds(by, 403, "Invalid token payload"), CallsNext(by)>>,
              user |-> payload]
        ELSE [trace |-> <<CallsNext(by)>>, user |-> payload]

\* authenticateJWT(req, res, next): what it does to the response and the chain, and
\* the req.user it leaves. next() hands on to the next layer, whose throws Express
\* catches in that layer, so that the catch block sees what jwt.verify threw only.
authenticateJWT(authHeader, secret) ==
    LET by == "authenticateJWT"
        token == IF authHeader.scheme = "Bearer" THEN authHeader.token
                 ELSE [verify |-> "empty", payload |-> NoPayload]
        payload == token.payload
    IN  IF token.verify = "empty"
        THEN [trace |-> <<Responds(by, 401, "Access token missing")>>, user |-> NoPayload]
        ELSE IF ~secret
        THEN [trace |-> <<Responds(by, 500, "JWT secret not configured")>>, user |-> NoPayload]
        ELSE IF token.verify = "TokenExpiredError"
        THEN [trace |-> <<Responds(by, 401, "Token expired")>>, user |-> NoPayload]
        ELSE IF token.verify = "JsonWebTokenError"
        THEN [trace |-> <<Responds(by, 403, "Invalid token")>>, user |-> NoPayload]
        ELSE IF token.verify = "Error"
        THEN [trace |-> <<Responds(by, 500, "Token verification failed")>>, user |-> NoPayload]
        ELSE IF payload.id = 0 \/ payload.email = <<>>
        THEN [trace |-> <<Responds(by, 403, "Invalid token payload")>>, user |-> NoPayload]
        ELSE [trace |-> <<CallsNext(by)>>, user |-> payload]

\* req.user?.id
AuthenticatedUserId(user) == IF user = NoPayload THEN JsUndefined ELSE JsNumber(user.id)

\* authorizeUser(req, res, next)
authorizeUser(user, param) ==
    LET by == "authorizeUser"
        authenticatedUserId == AuthenticatedUserId(user)
        requestedUserId == IF param # <<>> THEN parseInt(param) ELSE JsNull
    IN  IF ~Truthy(authenticatedUserId)
        THEN <<Responds(by, 401, "Authentication required")>>
        ELSE IF Truthy(requestedUserId) /\ ~StrictEquals(requestedUserId, authenticatedUserId)
        THEN <<Responds(by, 403, "Access denied. You can only access your own data.")>>
        ELSE <<CallsNext(by)>>

\* Variant: a userId in the body is left as it is, whatever it is.
authorizeCredentialAccess_NoCheck(user, userId) ==
    LET by == "authorizeCredentialAccess"
        authenticatedUserId == AuthenticatedUserId(user)
    IN  IF ~Truthy(authenticatedUserId)
        THEN [trace |-> <<Responds(by, 401, "Authentication required")>>, userId |-> userId]
        ELSE IF ~Truthy(userId)
        THEN [trace |-> <<CallsNext(by)>>, userId |-> authenticatedUserId]
        ELSE [trace |-> <<CallsNext(by)>>, userId |-> userId]

\* authorizeCredentialAccess(req, res, next) in POST /credentials: what it does, and
\* the req.body.userId it leaves.
authorizeCredentialAccess(user, userId) ==
    LET by == "authorizeCredentialAccess"
        authenticatedUserId == AuthenticatedUserId(user)
    IN  IF ~Truthy(authenticatedUserId)
        THEN [trace |-> <<Responds(by, 401, "Authentication required")>>, userId |-> userId]
        ELSE IF Truthy(userId) /\ ~StrictEquals(userId, authenticatedUserId)
        THEN [trace |-> <<Responds(by, 403,
                              "Access denied. You can only create credentials for yourself.")>>,
              userId |-> userId]
        ELSE IF ~Truthy(userId)
        THEN [trace |-> <<CallsNext(by)>>, userId |-> authenticatedUserId]
        ELSE [trace |-> <<CallsNext(by)>>, userId |-> userId]

\* The request being served has come to the given stage of its route.
AtStage(stage) == IF call.op = "api" THEN call.stage = stage ELSE FALSE

\* The stage after a middleware: the next one if it called next(), else the end.
StageAfter(trace, next) == IF trace[Len(trace)].did = "next" THEN next ELSE "end"

\* A request for one of the routes arrives; the one before it has been answered.
ApiRequest ==
    /\ IF call.op = "api" THEN call.stage = "end" ELSE TRUE
    /\ \E route \in {"GET /users/:id", "DELETE /users/:id", "POST /credentials"}, authHeader \in AuthHeaders :
        \E param \in IF route = "POST /credentials" THEN {<<>>} ELSE RouteParams :
        \E userId \in IF route = "POST /credentials"
                       THEN {JsUndefined, JsNull, JsString(<<>>)}
                                \cup { JsNumber(i) : i \in 0..MaxUsers }
                                \cup { JsString(Digits(i)) : i \in UserIds }
                       ELSE {JsUndefined} :
            call' = [op |-> "api", route |-> route, authHeader |-> authHeader, param |-> param,
                     sent |-> userId, userId |-> userId, user |-> NoPayload,
                     stage |-> "authenticateJWT", trace |-> <<>>, actsOn |-> JsUndefined]
    /\ UNCHANGED <<service, client>>

\* router.use(authenticateJWT), or authenticateJWT as the route's first handler.
ApiAuthenticate ==
    /\ AtStage("authenticateJWT")
    /\ LET auth == authenticateJWT(call.authHeader, jwtSecret)
       IN  call' = [call EXCEPT !.trace = @ \o auth.trace, !.user = auth.user,
                                !.stage = StageAfter(auth.trace, "authorize")]
    /\ UNCHANGED <<service, client>>

\* authorizeUser in GET and DELETE /users/:id.
ApiAuthorizeUser ==
    /\ AtStage("authorize")
    /\ call.route # "POST /credentials"
    /\ LET trace == authorizeUser(call.user, call.param)
       IN  call' = [call EXCEPT !.trace = @ \o trace, !.stage = StageAfter(trace, "handler")]
    /\ UNCHANGED <<service, client>>

\* authorizeCredentialAccess in POST /credentials.
ApiAuthorizeCredentialAccess ==
    /\ AtStage("authorize")
    /\ call.route = "POST /credentials"
    /\ LET authz == authorizeCredentialAccess(call.user, call.userId)
       IN  call' = [call EXCEPT !.trace = @ \o authz.trace, !.userId = authz.userId,
                                !.stage = StageAfter(authz.trace, "handler")]
    /\ UNCHANGED <<service, client>>

\* GET /users/:id: res.json(await getUserById(+req.params.id))
ApiGetUser ==
    /\ AtStage("handler")
    /\ call.route = "GET /users/:id"
    /\ call' = [call EXCEPT !.actsOn = ToNumber(call.param), !.stage = "end"]
    /\ UNCHANGED <<service, client>>

\* DELETE /users/:id: res.json(await deleteUser(+req.params.id)); the user of that
\* id is deleted if there is one.
ApiDeleteUser ==
    /\ AtStage("handler")
    /\ call.route = "DELETE /users/:id"
    /\ LET id == ToNumber(call.param)
       IN  /\ call' = [call EXCEPT !.actsOn = id, !.stage = "end"]
           /\ users' = IF id.t = "number" THEN { u \in users : u.id # id.n } ELSE users
    /\ UNCHANGED <<nextId, jwtSecret, modelsLoaded, modelsLoadingPromise, loads, requests, client>>

\* POST /credentials: the handler parses and stores req.body, userId included.
ApiCreateCredential ==
    /\ AtStage("handler")
    /\ call.route = "POST /credentials"
    /\ call' = [call EXCEPT !.actsOn = call.userId, !.stage = "end"]
    /\ UNCHANGED <<service, client>>

ApiNext ==
    \/ ApiRequest
    \/ ApiAuthenticate
    \/ ApiAuthorizeUser
    \/ ApiAuthorizeCredentialAccess
    \/ ApiGetUser
    \/ ApiDeleteUser
    \/ ApiCreateCredential

ApiSpec == Init /\ [][ApiNext]_vars

(* ---------------------------- the login page -------------------------- *)

\* The captureAndAuthenticate calls that have not returned.
PendingAttempts(c) == c.detecting + c.posting + c.resolved

\* A render of FaceRecognition after a state update, with its effect: the cleanup
\* of the effect before it (the interval it owns is cleared, or its 'play' listener
\* removed), then, with the model loaded, handlePlay() if the video is playing
\* (an interval the effect owns) or else a 'play' listener. The interval and the
\* listener hold the captureAndAuthenticate of this render. React commits the
\* render a state update schedules before the next tick of a one-second timer.
Rerender(c) ==
    LET kept == { iv \in c.intervals : ~iv.owned }
    IN  IF ~c.mounted THEN c
        ELSE IF ~c.initialized THEN [c EXCEPT !.intervals = kept, !.listener = NoListener]
        ELSE IF c.playing
        THEN [c EXCEPT !.intervals = kept \cup {[attemptingAuth |-> c.attemptingAuth,
                                                  owned |-> TRUE]},
                       !.listener = NoListener]
        ELSE [c EXCEPT !.intervals = kept,
                       !.listener = [attached |-> TRUE, attemptingAuth |-> c.attemptingAuth]]

\* setAttemptingAuth(value) and the render it causes; nothing when unmounted.
setAttemptingAuth(c, value) ==
    IF c.mounted THEN Rerender([c EXCEPT !.attemptingAuth = value]) ELSE c

\* The email step of the login page is passed: Webcam and FaceRecognition mount.
SubmitEmail ==
    /\ client.page = "login"
    /\ ~client.mounted
    /\ \E email \in RequestEmails :
        client' = Rerender([client EXCEPT !.mounted = TRUE, !.email = email,
                                           !.initialized = FALSE, !.playing = FALSE,
                                           !.attemptingAuth = FALSE])
    /\ UNCHANGED <<service, call>>

\* loadModels(): ssdMobilenetv1 is loaded, setInitialized(true).
ModelInitialized ==
    /\ client.mounted
    /\ ~client.initialized
    /\ client' = Rerender([client EXCEPT !.initialized = TRUE])
    /\ UNCHANGED <<service, call>>

\* The video starts playing. A 'play' listener calls handlePlay() and drops the
\* cleanup it returns: the interval it starts is cleared by no effect.
VideoPlay ==
    /\ client.mounted
    /\ ~client.playing
    /\ client' = [client EXCEPT
           !.playing = TRUE,
           !.intervals = IF client.listener.attached
                         THEN @ \cup {[attemptingAuth |-> client.listener.attemptingAuth,
                                        owned |-> FALSE]}
                         ELSE @]
    /\ UNCHANGED <<service, call>>

\* A tick of an interval: it clears itself when the video element is gone, and
\* otherwise calls the captureAndAuthenticate it holds, which returns at once if
\* the attemptingAuth it captured is set, and else sets attemptingAuth and starts
\* detectSingleFace().
Tick(iv) ==
    /\ iv \in client.intervals
    /\ IF ~client.mounted
       THEN client' = [client EXCEPT !.intervals = @ \ {iv}]
       ELSE /\ ~iv.attemptingAuth
            /\ PendingAttempts(client) < MaxReq
            /\ client' = setAttemptingAuth([client EXCEPT !.detecting = @ + 1], TRUE)
    /\ UNCHANGED <<service, call>>

\* detectSingleFace() finds no face: setAttemptingAuth(false), return.
DetectNoFace ==
    /\ client.detecting > 0
    /\ client' = setAttemptingAuth([client EXCEPT !.detecting = @ - 1], FALSE)
    /\ UNCHANGED <<service, call>>

\* detectSingleFace() finds a face: the frame is drawn and login(email, blob) called,
\* which encrypts the blob and posts it to /users/login.
DetectFace ==
    /\ client.detecting > 0
    /\ client' = [client EXCEPT !.detecting = @ - 1, !.posting = @ + 1]
    /\ UNCHANGED <<service, call>>

\* The server rejects the login: onError(message), setAttemptingAuth(false).
LoginRejected ==
    /\ client.posting > 0
    /\ client' = setAttemptingAuth([client EXCEPT !.posting = @ - 1], FALSE)
    /\ UNCHANGED <<service, call>>

\* The server accepts the login: AuthProvider's login() sets the header, stores the
\* user with id and token, and calls setUser(); login() has resolved.
LoginAccepted ==
    /\ client.posting > 0
    /\ \E id \in UserIds :
        LET token == jwtSign([id |-> id, email |-> client.email])
            loggedInUser == StoredUser(id, client.email, token)
        IN  client' = [client EXCEPT !.posting = @ - 1, !.resolved = @ + 1,
                                     !.authToken = token,
                                     !.localStorage = loggedInUser,
                                     !.user = loggedInUser]
    /\ UNCHANGED <<service, call>>

\* captureAndAuthenticate goes on after await login(): the stream is stopped and
\* onAuthenticated() called, the login page's handleAuthenticated, which stores
\* { email } as the user and sets isAuthenticated, so that the page navigates home
\* and FaceRecognition is unmounted: the cleanup of its effect runs.
OnAuthenticated ==
    /\ client.resolved > 0
    /\ client' = [client EXCEPT
           !.resolved = @ - 1,
           !.playing = FALSE,
           !.localStorage = StoredUser(0, client.email, NoToken),
           !.page = "home",
           !.mounted = FALSE,
           !.listener = NoListener,
           !.intervals = { iv \in @ : ~iv.owned }]
    /\ UNCHANGED <<service, call>>

\* The page is loaded again: timers and pending calls are gone, the axios instance
\* is new, and AuthProvider reads the user, and the token if it has one, from
\* localStorage; without a user a protected page redirects to the login page.
Reload ==
    /\ client' = [ClientInit EXCEPT
           !.localStorage = client.localStorage,
           !.user = client.localStorage,
           !.authToken = client.localStorage.token,
           !.page = IF client.localStorage = NoStoredUser THEN "login" ELSE client.page]
    /\ UNCHANGED <<service, call>>

\* AuthProvider's logout().
Logout ==
    /\ client.user # NoStoredUser
    /\ client.page = "home"
    /\ client' = [client EXCEPT !.localStorage = NoStoredUser, !.authToken = NoToken,
                                 !.user = NoStoredUser, !.page = "login"]
    /\ UNCHANGED <<service, call>>

ClientNext ==
    \/ SubmitEmail
    \/ ModelInitialized
    \/ VideoPlay
    \/ \E iv \in [attemptingAuth : BOOLEAN, owned : BOOLEAN] : Tick(iv)
    \/ DetectNoFace
    \/ DetectFace
    \/ LoginRejected
    \/ LoginAccepted
    \/ OnAuthenticated
    \/ Reload
    \/ Logout

ClientSpec == Init /\ [][ClientNext]_vars

(* ------------------------------ properties ---------------------------- *)

\* The loads in flight.
PendingLoads == { l \in 1..Len(loads) : loads[l] = "pending" }

\* The requests waiting for load l, counted with their copies.
Awaiting(l) == { req \in InFlight : req.pc = "models" /\ req.awaiting = l }

\* The service has come past the decryption block of the request.
PastDecrypt(req) == req.pc \in {"models", "downscale", "detect", "create"}

\* The upload came as the encryptedImage part.
Encrypted(req) == req.file.fieldname = "encryptedImage"

\* The keys of the decrypt() calls of a request, in order.
KeysTried(req) == [i \in 1..Len(req.attempts) |-> req.attempts[i].key]

\* The request got as far as the decryption block, and every decrypt() it made failed.
DecryptionFailed(req) ==
    /\ req.pc = "done"
    /\ Encrypted(req)
    /\ ~req.decrypted
    /\ req.kind = "login" => req.user # NoUser

\* C1: however many callers arrive while a load is in flight, at most one load is in
\* flight, and every caller that waits for a load in flight waits for that same one,
\* the one modelsLoadingPromise holds.
C1_SingleFlight ==
    /\ Cardinality(PendingLoads) <= 1
    /\ \A req \in InFlight :
        (req.pc = "models" /\ req.awaiting \in PendingLoads)
            => req.awaiting = modelsLoadingPromise

\* Two requests wait for the same load in flight.
C1_Witness ==
    \E l \in PendingLoads :
        \/ Cardinality(Awaiting(l)) >= 2
        \/ \E req \in Awaiting(l) : CopiesIn(req, requests) >= 2

\* C2: after a failed load the lifecycle is Unloaded again: with the models not loaded
\* and no load in flight, no promise is kept, so that the next call starts a new load.
C2_FailedLoadRetryable ==
    (~modelsLoaded /\ PendingLoads = {}) => modelsLoadingPromise = 0

\* C3: a request holds a token only if it is a finished login whose user was found
\* with a stored descriptor, whose envelope (if encrypted) was decrypted, in whose
\* image a face was detected, and whose distance is within the threshold; a request
\* that was rejected holds no token.
C3_TokenOnlyOnAccept ==
    \A req \in InFlight :
        /\ req.result.token # NoToken =>
            /\ req.kind = "login"
            /\ req.pc = "done"
            /\ req.result.ok
            /\ req.user # NoUser
            /\ req.user.faceDescriptor # NoFace
            /\ Encrypted(req) => req.decrypted
            /\ req.processed
            /\ req.detection # NoFace
            /\ ~DistanceExceeds(req.user.faceDescriptor, req.detection)
            /\ req.result.token = jwtSign(req.user)
        /\ ~req.result.ok => req.result.token = NoToken

\* A login ended with a token.
C3_Witness ==
    \E req \in InFlight : req.kind = "login" /\ req.pc = "done" /\ req.result.token # NoToken

\* C4: the keys an authentication tries are a prefix of <<user-specific, temporary>>:
\* the user-specific key is first, the temporary key follows only a failed first
\* attempt, and a decryption that failed after any attempt tried both.
C4_CandidateOrder ==
    \A req \in InFlight :
        (req.kind = "login" /\ req.user # NoUser) =>
            LET candidates == <<getUserEncryptionKey(req.user.id, req.email),
                                tempEncryptionKey(req.email)>>
                n == Len(req.attempts)
            IN  /\ n <= 2
                /\ KeysTried(req) = SubSeq(candidates, 1, n)
                /\ n = 2 => ~req.attempts[1].ok
                /\ req.decrypted => n >= 1
                /\ (DecryptionFailed(req) /\ n >= 1) => n = 2

\* An authentication fell back to the temporary key.
C4_Witness ==
    \E req \in InFlight :
        /\ req.kind = "login"
        /\ req.user # NoUser
        /\ Len(req.attempts) = 2
        /\ req.attempts[2].ok

\* C5: a registration tries the temporary key of its email and no other key, once.
C5_RegistrationTemporaryKeyOnly ==
    \A req \in InFlight :
        req.kind = "register" =>
            /\ Len(req.attempts) <= 1
            /\ \A i \in 1..Len(req.attempts) :
                req.attempts[i].key = tempEncryptionKey(req.email)
            /\ req.decrypted => Len(req.attempts) = 1

\* A registration decrypted its envelope.
C5_Witness ==
    \E req \in InFlight : req.kind = "register" /\ req.decrypted /\ PastDecrypt(req)

\* C6: no key is tried twice by one request, and no attempt follows a successful one.
C6_StopAtFirstSuccess ==
    \A req \in InFlight :
        /\ \A i, j \in 1..Len(req.attempts) :
            i # j => req.attempts[i].key # req.attempts[j].key
        /\ \A i \in 1..Len(req.attempts) :
            req.attempts[i].ok => i = Len(req.attempts)

\* An authentication decrypted with its first key and tried no other.
C6_Witness ==
    \E req \in InFlight :
        /\ req.kind = "login"
        /\ req.decrypted
        /\ Len(req.attempts) = 1
        /\ req.attempts[1].ok

\* The capture the shipped client's login sends: wrapped, under the temporary key.
TemporaryCapture(email) ==
    Envelope(encrypt(Base64(ImageBuffer), tempEncryptionKey(email), "malformed"))

\* The attempts of scenario C: the user-specific key fails, the temporary key succeeds.
FallbackAttempts(user) ==
    <<[key |-> getUserEncryptionKey(user.id, user.email), ok |-> FALSE],
      [key |-> tempEncryptionKey(user.email), ok |-> TRUE]>>

\* C7: for every registered user a capture under the temporary key is decrypted by
\* the fallback (the user-specific attempt fails, the temporary one succeeds), and
\* an authentication that decrypted this way and whose detected face is within the
\* threshold ends accepted with the user's token, JWT_SECRET being defined.
C7_FallbackAccepts ==
    /\ \A u \in users :
        decryptUserSelfieImage(TemporaryCapture(u.email), u.id, u.email)
            = Returned(ImageBuffer, FallbackAttempts(u))
    /\ \A req \in InFlight :
        (/\ req.kind = "login"
         /\ req.pc = "done"
         /\ req.user # NoUser
         /\ req.attempts = FallbackAttempts(req.user)
         /\ req.detection # NoFace
         /\ ~DistanceExceeds(req.user.faceDescriptor, req.detection)
         /\ jwtSecret)
            => (req.result.ok /\ req.result.token = jwtSign(req.user))

\* An authentication that fell back to the temporary key was accepted.
C7_Witness ==
    \E req \in InFlight :
        /\ req.kind = "login"
        /\ req.pc = "done"
        /\ req.user # NoUser
        /\ req.attempts = FallbackAttempts(req.user)
        /\ req.result.ok

\* C8: any two requests whose decryption failed end with the same error, whatever
\* keys each tried and wherever each failed.
C8_ExhaustionUniform ==
    \A r1, r2 \in InFlight :
        (DecryptionFailed(r1) /\ DecryptionFailed(r2)) =>
            /\ ~r1.result.ok
            /\ r1.result = r2.result

\* Two failed decryptions are in hand that tried different keys.
C8_Witness ==
    \E r1, r2 \in InFlight :
        /\ DecryptionFailed(r1)
        /\ DecryptionFailed(r2)
        /\ Len(r1.attempts) = 0
        /\ Len(r2.attempts) = 2

\* C9: a request whose encrypted upload was not decrypted goes no further: it is
\* never past the decryption block, its bytes are never processed as an image, and
\* it ends rejected.
C9_NoPlaintextPassthrough ==
    \A req \in InFlight :
        (Encrypted(req) /\ ~req.decrypted) =>
            /\ ~PastDecrypt(req)
            /\ ~req.processed
            /\ req.pc = "done" => ~req.result.ok

\* An authentication tried both keys on an encrypted upload and both failed.
C9_Witness ==
    \E req \in InFlight :
        /\ req.kind = "login"
        /\ DecryptionFailed(req)
        /\ Len(req.attempts) = 2

\* C10: every image the service processes was obtained by decrypting an encrypted
\* envelope.
C10_OnlyDecryptedImagesProcessed ==
    \A req \in InFlight : req.processed => (Encrypted(req) /\ req.decrypted)

C12_WrongKeyFails ==
    (call.op = "decrypt" /\ call.otherKey # call.secretKey) => call.result = Empty

C14_UnknownVersionRejected ==
    (call.op = "helper" /\ call.body.t = "json" /\ call.body.version # "1.0")
        => ~call.result.ok

\* The keys the helper of a phase tries for a user.
CandidateKeys(phase, userId, email) ==
    IF phase = "register" THEN {tempEncryptionKey(email)}
    ELSE {getUserEncryptionKey(userId, email), tempEncryptionKey(email)}

\* C15: a bare ciphertext is handled as the wrapper around it would be: the helper
\* gives the same result for both, and a bare capture encrypted under one of the
\* candidate keys decrypts to the image.
C15_LegacyInputAccepted ==
    (call.op = "helper" /\ call.body.t = "raw") =>
        /\ call.result =
               DecryptHelper(call.phase, Envelope(call.body.data), call.userId, call.email)
        /\ (\E k \in CandidateKeys(call.phase, call.userId, call.email) :
                call.body.data = encrypt(Base64(ImageBuffer), k, "malformed"))
               => (call.result.ok /\ call.result.buffer = ImageBuffer)

\* A bare ciphertext under a candidate key was decrypted.
C15_Witness ==
    /\ call.op = "helper"
    /\ call.body.t = "raw"
    /\ call.result.ok
    /\ call.result.buffer = ImageBuffer

\* The error a login ends with when the face does not match.
FaceMismatch == handleDbError(ServiceError("VALIDATION_FAILED", "Face verification failed"))

\* A login that ended after the comparison of the detected face with the stored one.
Compared(req) ==
    /\ req.kind = "login"
    /\ req.pc = "done"
    /\ req.detection # NoFace

NoFaceDetected ==
    handleDbError(ServiceError("VALIDATION_FAILED", "No face detected in the image"))

\* The detector answered that the image of the request shows no face.
FoundNoFace(req) == req.pc = "done" /\ req.processed /\ req.detection = NoFace

\* C18: a request in whose image the detector finds no face, registration or
\* authentication, ends with the no-face error; it holds no token and no user was
\* created for it.
C18_NoFaceRejected ==
    \A req \in InFlight :
        FoundNoFace(req) =>
            /\ ~req.result.ok
            /\ req.result.error = NoFaceDetected
            /\ req.result.token = NoToken
            /\ req.result.userId = 0
            /\ req.kind = "register" => req.user = NoUser

\* A registration and an authentication, both with decrypted envelopes, ended
\* with no face found.
C18_Witness ==
    \E r1, r2 \in InFlight :
        /\ r1.kind = "register" /\ r1.decrypted /\ FoundNoFace(r1)
        /\ r2.kind = "login" /\ r2.decrypted /\ FoundNoFace(r2)

\* C19: a user record appears in the store only by the last step of a registration
\* whose image was decrypted (if it came encrypted) and processed and in which a
\* face was detected: the record holds that descriptor, and the registration is
\* over, accepted, in the same step. No other step, and no step of an
\* authentication, adds or changes a record.
C19_WriteOnlyAtAccept ==
    [][(users' \ users # {}) =>
        \E cur \in InFlight :
            /\ cur.kind = "register"
            /\ cur.pc = "create"
            /\ Encrypted(cur) => cur.decrypted
            /\ cur.processed
            /\ cur.detection # NoFace
            /\ users' = users \cup {[id |-> nextId, email |-> cur.email,
                                      faceDescriptor |-> cur.detection]}
            /\ \E fin \in BagToSet(requests') :
                /\ fin.kind = "register"
                /\ fin.pc = "done"
                /\ fin.result.ok
                /\ fin.result.userId = nextId]_vars

\* A registration was accepted and its record is in the store.
C19_Witness ==
    \E req \in InFlight :
        /\ req.kind = "register"
        /\ req.pc = "done"
        /\ req.result.ok
        /\ req.user \in users

\* A registration that got a descriptor from the detector and is over.
Extracted(req) == req.kind = "register" /\ req.pc = "done" /\ req.detection # NoFace

\* C20 as stated: every registration that extracted a descriptor, that of an email
\* already registered too, ends with this descriptor stored for the email.
C20_ReRegistrationReplaces ==
    \A req \in InFlight :
        Extracted(req) => (req.result.ok /\ req.user.faceDescriptor = req.detection)

\* C20, amended: through registrations and deletions no two records share an email,
\* no step changes the record of an email that is registered, and a registration
\* of a registered email is rejected and leaves the store as it is.
C20_OneTemplateNoReplace ==
    [][/\ \A u1, u2 \in users' : u1.email = u2.email => u1 = u2
       /\ \A u \in users : \A v \in users' : v.email = u.email => v = u
       /\ \A cur \in InFlight :
            (/\ cur.pc = "create"
             /\ \E u \in users : u.email = cur.email
             /\ CopiesIn(cur, requests') < CopiesIn(cur, requests))
                => /\ users' = users
                   /\ \E fin \in BagToSet(requests') :
                        /\ Extracted(fin)
                        /\ fin.detection = cur.detection
                        /\ ~fin.result.ok]_vars

\* A registration of a registered email was rejected, and the stored descriptor is
\* not the one it extracted.
C20_Witness ==
    \E req \in InFlight :
        /\ Extracted(req)
        /\ ~req.result.ok
        /\ \E u \in users : u.email = req.email /\ u.faceDescriptor # req.detection

\* The error a login ends with when no user has its email.
UserNotFound == handleDbError(ServiceError("NOT_FOUND", "User not found"))

\* C21: a step that removes a user record leaves no record with its id or its email,
\* so no descriptor of that identity; and an authentication that looks the email up
\* while no record holds it ends with the not-found error and no token.
C21_DeletedCannotAuthenticate ==
    [][/\ \A u \in users \ users' :
            \A v \in users' : v.id # u.id /\ v.email # u.email
       /\ \A cur \in InFlight :
            (/\ cur.kind = "login"
             /\ cur.pc = "lookup"
             /\ ~\E u \in users : u.email = cur.email
             /\ CopiesIn(cur, requests') < CopiesIn(cur, requests))
                => \E fin \in BagToSet(requests') :
                        /\ fin.kind = "login"
                        /\ fin.pc = "done"
                        /\ fin.email = cur.email
                        /\ fin.user = NoUser
                        /\ ~fin.result.ok
                        /\ fin.result.error = UserNotFound
                        /\ fin.result.token = NoToken]_vars

\* The user of the request email, registered from the start, was deleted, and an
\* authentication for that email has ended with the not-found error.
C21_Witness ==
    /\ \E u \in users : u.email \notin RequestEmails
    /\ \E req \in InFlight :
        /\ req.kind = "login"
        /\ req.pc = "done"
        /\ ~\E u \in users : u.email = req.email
        /\ req.result.error = UserNotFound

LifecycleRank(loaded, promise) == IF loaded THEN 2 ELSE IF promise # 0 THEN 1 ELSE 0

\* C24: every step leaves the lifecycle where it is or moves it one stage forward,
\* Unloaded to Loading or Loading to Loaded; once the models are loaded they stay
\* loaded, no call starts a load, and every caller of loadModelsOnce() gets no
\* promise to wait for.
C24_MonotoneLifecycle ==
    [][LET before == LifecycleRank(modelsLoaded, modelsLoadingPromise)
           after == LifecycleRank(modelsLoaded', modelsLoadingPromise')
       IN  /\ after \in {before, before + 1}
           /\ modelsLoaded =>
                /\ modelsLoaded'
                /\ loads' = loads
                /\ modelsLoadingPromise' = modelsLoadingPromise
                /\ \A req \in BagToSet(requests') :
                     (req.pc = "models" /\ CopiesIn(req, requests') > CopiesIn(req, requests))
                         => req.awaiting = 0]_vars

\* With the models loaded, a caller of loadModelsOnce() got no promise, and the
\* one load there was is the only one.
C24_Witness ==
    /\ modelsLoaded
    /\ Len(loads) = 1
    /\ \E req \in InFlight : req.pc = "models" /\ req.awaiting = 0

\* C25: the steps of a request follow one another. Before the decryption block
\* nothing of the request is decrypted, processed or detected; the image is
\* processed and the detector run only with the models loaded and, for an encrypted
\* upload, after the decryption succeeded; while the detector runs no descriptor and
\* no result is there yet; and a login is accepted, or rejected as a mismatch, only
\* with the descriptor the detector returned.
C25_StrictlySequential ==
    \A req \in InFlight :
        /\ req.pc = "lookup" =>
            (~req.decrypted /\ req.attempts = <<>> /\ ~req.processed /\ req.detection = NoFace)
        /\ req.pc = "models" => (~req.processed /\ req.detection = NoFace)
        /\ req.pc \in {"downscale", "detect"} =>
            /\ modelsLoaded
            /\ Encrypted(req) => req.decrypted
            /\ req.detection = NoFace
            /\ req.result = NoResult
        /\ req.processed => (modelsLoaded /\ (Encrypted(req) => req.decrypted))
        /\ req.detection # NoFace => req.processed
        /\ (req.kind = "login" /\ (req.result.ok \/ req.result.error = FaceMismatch)) =>
            (req.pc = "done" /\ req.processed /\ req.detection # NoFace)

\* One login has decrypted its envelope and waits for the detector while another,
\* decrypted and detected, has been compared.
C25_Witness ==
    \E r1, r2 \in InFlight :
        /\ r1.kind = "login" /\ r1.pc = "detect" /\ r1.decrypted
        /\ r2.kind = "login" /\ Compared(r2) /\ r2.decrypted /\ r2.processed

\* The request went through the middleware of the given name to what follows it.
LetThrough(by) ==
    /\ call.op = "api"
    /\ call.trace # <<>>
    /\ call.trace[Len(call.trace)] = CallsNext(by)

\* C26: when authorizeUser has let a request through and the handler of GET or
\* DELETE /users/:id has run, the id the handler acted on is the id of the
\* authenticated user.
C26_OwnDataOnly ==
    (LetThrough("authorizeUser") /\ call.stage = "end")
        => StrictEquals(call.actsOn, JsNumber(call.user.id))

\* What authenticateJWT did to the request being served.
ByAuthenticateJWT == SelectSeq(call.trace, LAMBDA e : e.by = "authenticateJWT")

\* C27: once authenticateJWT has run it has done exactly one thing, a call of next()
\* or an error response (401, 403 or 500); and it called next() only for a Bearer
\* token that verified, with JWT_SECRET defined and a payload holding an id and an
\* email, which it attached to the request.
C27_DecidesOnce ==
    (call.op = "api" /\ call.stage # "authenticateJWT") =>
        /\ Len(ByAuthenticateJWT) = 1
        /\ ByAuthenticateJWT[1].did = "respond" =>
            (ByAuthenticateJWT[1].status \in {401, 403, 500} /\ call.stage = "end")
        /\ ByAuthenticateJWT[1].did = "next" =>
            /\ call.authHeader.scheme = "Bearer"
            /\ call.authHeader.token.verify = "payload"
            /\ jwtSecret
            /\ call.authHeader.token.payload.id # 0
            /\ call.authHeader.token.payload.email # <<>>
            /\ call.user = call.authHeader.token.payload

\* authenticateJWT has let a request with a good token through to the next handler.
C27_Witness ==
    /\ call.op = "api"
    /\ call.stage = "authorize"
    /\ call.trace = <<CallsNext("authenticateJWT")>>
    /\ call.user.id \in UserIds

\* C30: a POST /credentials that authorizeCredentialAccess lets through has the id
\* of the authenticated user as body.userId, and so has the body the handler
\* stores; a userId sent that is another value is answered 403.
C30_CredentialsForOneself ==
    /\ LetThrough("authorizeCredentialAccess")
          => /\ StrictEquals(call.userId, JsNumber(call.user.id))
             /\ call.stage = "end" => call.actsOn = call.userId
             /\ Truthy(call.sent) => call.sent = call.userId
    /\ (/\ call.op = "api"
        /\ call.route = "POST /credentials"
        /\ call.stage = "end"
        /\ call.user # NoPayload
        /\ Truthy(call.sent)
        /\ ~StrictEquals(call.sent, JsNumber(call.user.id)))
          => call.trace[Len(call.trace)].status = 403

\* A credential was created from a body sent without userId, filled in with the id
\* of the authenticated user.
C30_Witness ==
    /\ call.op = "api"
    /\ call.route = "POST /credentials"
    /\ call.stage = "end"
    /\ call.sent = JsUndefined
    /\ call.user.id \in UserIds
    /\ call.actsOn = JsNumber(call.user.id)

\* C28: while the application holds the user a login returned, with its token,
\* the user item of localStorage is that user, id and token included, and the
\* Authorization header carries that token.
C28_SessionConsistent ==
    client.user.token # NoToken =>
        /\ client.localStorage = client.user
        /\ client.authToken = client.user.token

\* C29: at most one captureAndAuthenticate call is pending.
C29_SingleAttempt == PendingAttempts(client) <= 1

====
